---- MODULE Spec2Model ----
(***************************************************************************)
(* Duty roster of Wayne-management (src/src/App.tsx): the shift list, the  *)
(* manual editors updateShift / toggleShift, the image import, the greedy  *)
(* auto-fill generateSchedule, the roster, the version history, and the    *)
(* save routes of the server (src/unnamed/part_004).                       *)
(*                                                                         *)
(* Dates are day numbers of a small calendar: day 0 is the last day of the *)
(* previous month, 1..DaysInMonth are the days of the displayed month      *)
(* (currentDate), DaysInMonth + 1 is the first day of the next month.      *)
(* 'yyyy-MM-dd' strings are compared only for equality and month prefix,   *)
(* and moved by subDays / addDays, so a day number carries all of it.      *)
(***************************************************************************)
EXTENDS Integers, Sequences, FiniteSets, TLC

VARIABLES people, shifts, firstCallCount, manualHighlights, lastOp,
          isExcelUnlocked, uploadPhase, versions, editedInFlight, db, httpStatus

\* the tables of wayne_duty.db and the status of the last response of the server
serverVars == <<db, httpStatus>>

vars == <<people, shifts, firstCallCount, manualHighlights, lastOp,
          isExcelUnlocked, uploadPhase, versions, editedInFlight, serverVars>>

----------------------------------------------------------------------------
(* Bounds of the model *)

DaysInMonth == 5

MaxShifts == 2

MaxCols == 3

\* saved versions kept in the history
MaxVersions == 1

\* people in the roster
MaxPeople == 3

(* Program constants *)

MinFirstCallCount == 1

MaxFirstCallCount == 5

InitialFirstCallCount == 2

LevelLimit == 1

LOCKED == "LOCKED"

\* '' / undefined: the falsy person id of an empty <select> or a missing old shift
NoPerson == ""

----------------------------------------------------------------------------
(* Calendar *)

Dates == 0..(DaysInMonth + 1)

MonthDays == 1..DaysInMonth

\* the dates the manual editors are tried on
EditDates == {1}

\* the dates that may be highlighted by hand (day 2 is otherwise a plain weekday)
HighlightDates == {2}

\* s.date.startsWith(monthStr) for the displayed month
InCurrentMonth(d) == d \in MonthDays

\* date-fns isWeekend; day 0 is a Saturday and day 1 a Sunday (as 2026-01-31, 2026-02-01)
isWeekend(d) == (d % 7) \in {0, 1}

\* the holiday list (THAI_HOLIDAYS plus the server's), as day numbers of the calendar
holidays == {3}

isHolidayType(d, highlights) ==
    isWeekend(d) \/ d \in holidays \/ d \in highlights

----------------------------------------------------------------------------
(* Levels *)

Letters == <<"A", "B", "C", "D", "E">>

\* `1${String.fromCharCode(65 + i)}` for the 0-based column i = n - 1
FirstCallLevel(n) == "1" \o Letters[n]

\* level.startsWith('1') over the levels the program builds
StartsWith1(level) == level \in {FirstCallLevel(n) : n \in 1..MaxFirstCallCount}

\* the slots of one day, in processing order: '2', '3', then 1A.. up to the column count
Slots(fcc) ==
    <<[level |-> "2", role |-> "others"], [level |-> "3", role |-> "others"]>>
    \o [n \in 1..fcc |-> [level |-> FirstCallLevel(n), role |-> "first"]]

ConfiguredLevels(fcc) == {Slots(fcc)[i].level : i \in 1..Len(Slots(fcc))}

----------------------------------------------------------------------------
(* People *)

\* (person.group || '').toLowerCase().trim() on the group texts of the rosters
NormGroup(g) ==
    CASE g \in {"R", " r", "r "} -> "r"
      [] g \in {"All Calls", "ALL CALLS ", "all calls"} -> "all calls"
      [] g = "Ortho" -> "ortho"
      [] OTHER -> ""

\* a target left unset (undefined, or 0 which the editor stores as undefined) is 0
Person(id, role, group, unavailable, tTotal, tHol, tWk) ==
    [id |-> id, role |-> role, group |-> group, unavailableDates |-> unavailable,
     targetTotal |-> tTotal, targetHoliday |-> tHol, targetWeekday |-> tWk]

RosterGroups ==
    << Person("p1", "first", " r", {}, 0, 0, 0),
       Person("p2", "others", "ALL CALLS ", {}, 0, 0, 0),
       Person("p3", "both", "Ortho", {}, 0, 0, 0) >>

RosterCaps ==
    << Person("p1", "both", "", {2}, 1, 0, 0),
       Person("p2", "both", "R", {}, 0, 1, 1),
       Person("p3", "both", "All Calls", {1}, 2, 0, 0) >>

RosterEmpty == << >>

Rosters == {RosterGroups, RosterCaps, RosterEmpty}

PersonIds == {"p1", "p2", "p3"}

findPerson(ps, id) ==
    IF \E i \in 1..Len(ps) : ps[i].id = id
    THEN ps[CHOOSE i \in 1..Len(ps) : ps[i].id = id /\ \A j \in 1..(i - 1) : ps[j].id # id]
    ELSE [id |-> NoPerson, role |-> "", group |-> "", unavailableDates |-> {},
          targetTotal |-> 0, targetHoliday |-> 0, targetWeekday |-> 0]

groupOf(ps, id) == NormGroup(findPerson(ps, id).group)

----------------------------------------------------------------------------
(* Array helpers *)

Shift(d, p, l) == [date |-> d, personId |-> p, level |-> l]

\* findIndex: the least index of I, a set of indices of a list; 0 when I is empty
\* (findIndex = -1)
FirstIndex(I) == IF I = {} THEN 0 ELSE CHOOSE i \in I : \A j \in I : i <= j

\* the indices of the list s
Idx(s) == 1..Len(s)

\* splice(i, 1)
RemoveAt(s, i) == SubSeq(s, 1, i - 1) \o SubSeq(s, i + 1, Len(s))

IsPrefix(s, t) == Len(s) <= Len(t) /\ SubSeq(t, 1, Len(s)) = s

\* filter(...).length, for I the set of indices that pass the filter
Count(I) == Cardinality(I)

----------------------------------------------------------------------------
(* generateSchedule: running tallies *)

ZeroCount == [total |-> 0, hol |-> 0, wk |-> 0]

rosterIds(ps) == {ps[i].id : i \in 1..Len(ps)}

\* variant: the day-type tallies are left alone
BumpTotalOnly(counts, id, isHol) == [counts EXCEPT ![id].total = @ + 1]

\* counts[selected.id].total++; if (isHol) hol++ else wk++
Bump(counts, id, isHol) ==
    [counts EXCEPT ![id] = [total |-> @.total + 1,
                            hol |-> IF isHol THEN @.hol + 1 ELSE @.hol,
                            wk |-> IF isHol THEN @.wk ELSE @.wk + 1]]

RECURSIVE CountShifts(_, _, _)
\* forEach over the shifts of the month: only ids that have a counts entry are tallied
CountShifts(counts, ss, highlights) ==
    IF ss = << >> THEN counts
    ELSE LET s == Head(ss)
             next == IF InCurrentMonth(s.date) /\ s.personId \in DOMAIN counts
                     THEN Bump(counts, s.personId, isHolidayType(s.date, highlights))
                     ELSE counts
         IN CountShifts(next, Tail(ss), highlights)

\* variant: the tallies start at zero, whatever the month already holds
initialCountsFromZero(ps, ss, highlights) == [id \in rosterIds(ps) |-> ZeroCount]

initialCounts(ps, ss, highlights) ==
    CountShifts([id \in rosterIds(ps) |-> ZeroCount], ss, highlights)

----------------------------------------------------------------------------
(* generateSchedule: the eligible filter of one slot *)

\* variant: the cap is compared with > instead of >=
capReachedStrict(target, count) == target > 0 /\ count > target

capReached(target, count) == target > 0 /\ count >= target

capExcludes(person, c, isHol) ==
    \/ capReached(person.targetTotal, c.total)
    \/ (isHol /\ capReached(person.targetHoliday, c.hol))
    \/ (~isHol /\ capReached(person.targetWeekday, c.wk))

\* variant: only the first-call slots are closed to the other category
roleExcludesFirstOnly(slot, person) == slot.role = "first" /\ person.role = "others"

roleExcludes(slot, person) ==
    \/ (slot.role = "first" /\ person.role = "others")
    \/ (slot.role = "others" /\ person.role = "first")

assignedOnDate(cur, id, day) ==
    \E i \in 1..Len(cur) : cur[i].date = day /\ cur[i].personId = id

\* variant: only the shifts of the displayed month are looked at
assignedNextToInMonth(cur, id, day) ==
    \E i \in 1..Len(cur) :
        /\ InCurrentMonth(cur[i].date)
        /\ cur[i].personId = id /\ (cur[i].date = day - 1 \/ cur[i].date = day + 1)

\* variant: only the following day is looked at
assignedOnNextDayOnly(cur, id, day) ==
    \E i \in 1..Len(cur) : cur[i].personId = id /\ cur[i].date = day + 1

assignedNextTo(cur, id, day) ==
    \E i \in 1..Len(cur) :
        cur[i].personId = id /\ (cur[i].date = day - 1 \/ cur[i].date = day + 1)

groupExcludes(ps, cur, person, day, slot) ==
    LET pGroup == NormGroup(person.group)
    IN IF StartsWith1(slot.level)
       THEN /\ pGroup = "r"
            /\ LET k == FirstIndex({ix \in Idx(cur) : cur[ix].date = day /\ cur[ix].level = "2"})
               IN k # 0 /\ groupOf(ps, cur[k].personId) = "all calls"
       ELSE /\ slot.level = "2"
            /\ pGroup = "all calls"
            /\ \E i \in 1..Len(cur) :
                  /\ cur[i].date = day
                  /\ StartsWith1(cur[i].level)
                  /\ groupOf(ps, cur[i].personId) = "r"

\* variant: the unavailable dates are not looked at
isEligibleAnyDate(ps, cur, counts, person, day, slot, isHol) ==
    /\ ~roleExcludes(slot, person)
    /\ ~capExcludes(person, counts[person.id], isHol)
    /\ ~assignedOnDate(cur, person.id, day)
    /\ ~assignedNextTo(cur, person.id, day)
    /\ ~groupExcludes(ps, cur, person, day, slot)

isEligible(ps, cur, counts, person, day, slot, isHol) ==
    /\ ~roleExcludes(slot, person)
    /\ day \notin person.unavailableDates
    /\ ~capExcludes(person, counts[person.id], isHol)
    /\ ~assignedOnDate(cur, person.id, day)
    /\ ~assignedNextTo(cur, person.id, day)
    /\ ~groupExcludes(ps, cur, person, day, slot)

eligibleOf(ps, cur, counts, day, slot, isHol) ==
    SelectSeq(ps, LAMBDA person : isEligible(ps, cur, counts, person, day, slot, isHol))

----------------------------------------------------------------------------
(* generateSchedule: choice among the eligible *)

hasNear2(cur, id, day) ==
    \E i \in 1..Len(cur) :
        cur[i].personId = id /\ (cur[i].date = day - 2 \/ cur[i].date = day + 2)

\* the choice without the 2-day preference
bestCandidatesAnyone(cur, eligible, day) == eligible

\* eligible without an assignment two days away; the full eligible list if none is left
bestCandidatesOf(cur, eligible, day) ==
    LET best == SelectSeq(eligible, LAMBDA person : ~hasNear2(cur, person.id, day))
    IN IF Len(best) = 0 THEN eligible ELSE best

needOf(person, c) ==
    IF person.targetTotal # 0 THEN person.targetTotal - c.total ELSE 0 - c.total

\* the sort callback: negative when a goes before b
compareCandidates(a, b, counts, isHol) ==
    LET ca == counts[a.id]
        cb == counts[b.id]
        aNeed == needOf(a, ca)
        bNeed == needOf(b, cb)
    IN IF (a.targetTotal # 0 \/ b.targetTotal # 0) /\ aNeed # bNeed THEN bNeed - aNeed
       ELSE IF isHol /\ ca.hol # cb.hol THEN ca.hol - cb.hol
       ELSE IF ~isHol /\ ca.wk # cb.wk THEN ca.wk - cb.wk
       ELSE ca.total - cb.total

RECURSIVE InsertSorted(_, _, _, _)
\* x goes before the first element it is strictly less than (stable)
InsertSorted(x, s, counts, isHol) ==
    IF s = << >> THEN <<x>>
    ELSE IF compareCandidates(x, Head(s), counts, isHol) < 0 THEN <<x>> \o s
    ELSE <<Head(s)>> \o InsertSorted(x, Tail(s), counts, isHol)

RECURSIVE sortCandidates(_, _, _)
\* Array.prototype.sort with the callback above (stable)
sortCandidates(s, counts, isHol) ==
    IF s = << >> THEN << >>
    ELSE InsertSorted(s[Len(s)], sortCandidates(SubSeq(s, 1, Len(s) - 1), counts, isHol),
                      counts, isHol)

----------------------------------------------------------------------------
(* generateSchedule: the pass over the days and slots of the month *)

\* variant: a locked slot counts as empty
slotTakenUnlessLocked(cur, day, level) ==
    \E i \in 1..Len(cur) :
        cur[i].date = day /\ cur[i].level = level /\ cur[i].personId # LOCKED

slotTaken(cur, day, level) ==
    \E i \in 1..Len(cur) : cur[i].date = day /\ cur[i].level = level

\* variant: a slot is filled only when there is a choice (eligible.length > 1)
fillSlotNeedsChoice(ps, st, day, slot, highlights) ==
    LET isHol == isHolidayType(day, highlights)
        eligible == eligibleOf(ps, st.shifts, st.counts, day, slot, isHol)
    IN IF slotTaken(st.shifts, day, slot.level) \/ Len(eligible) <= 1 THEN st
       ELSE LET selected ==
                    Head(sortCandidates(bestCandidatesOf(st.shifts, eligible, day),
                                        st.counts, isHol))
            IN [shifts |-> Append(st.shifts, Shift(day, selected.id, slot.level)),
                counts |-> Bump(st.counts, selected.id, isHol)]

\* the body of slots.forEach for one slot; st = [shifts, counts]
fillSlot(ps, st, day, slot, highlights) ==
    LET isHol == isHolidayType(day, highlights)
        eligible == eligibleOf(ps, st.shifts, st.counts, day, slot, isHol)
    IN IF slotTaken(st.shifts, day, slot.level) \/ Len(eligible) = 0 THEN st
       ELSE LET selected ==
                    Head(sortCandidates(bestCandidatesOf(st.shifts, eligible, day),
                                        st.counts, isHol))
            IN [shifts |-> Append(st.shifts, Shift(day, selected.id, slot.level)),
                counts |-> Bump(st.counts, selected.id, isHol)]

RECURSIVE fillFrom(_, _, _, _, _)
\* daysInMonth.forEach(day => slots.forEach(...)), k-th (day, slot) pair onwards
\* (each slot is worked out before the loop goes on; the list never shrinks)
fillFrom(ps, st, k, fcc, highlights) ==
    LET n == Len(Slots(fcc))
        next == fillSlot(ps, st, ((k - 1) \div n) + 1, Slots(fcc)[((k - 1) % n) + 1],
                         highlights)
    IN IF k > DaysInMonth * n THEN st
       ELSE IF Len(next.shifts) >= Len(st.shifts)
            THEN fillFrom(ps, next, k + 1, fcc, highlights)
            ELSE st

\* variant: the list is handed over after the first slot of the month
generateScheduleFirstSlot(ps, ss, fcc, highlights) ==
    fillSlot(ps, [shifts |-> ss, counts |-> initialCounts(ps, ss, highlights)],
             1, Slots(fcc)[1], highlights).shifts

\* the list generateSchedule hands to setShifts
generateScheduleResult(ps, ss, fcc, highlights) ==
    fillFrom(ps, [shifts |-> ss, counts |-> initialCounts(ps, ss, highlights)],
             1, fcc, highlights).shifts

----------------------------------------------------------------------------
(* Manual editing *)

NoAlert == ""

AlertBoth == "A person cannot be assigned to both on the same day."

AlertLimit == "Limit reached"

\* variant: the rejection comes after the old shift has been removed from the list
updateShiftResultDropsOld(ss, date, level, oldPersonId, newPersonId) ==
    LET indexToRemove ==
            IF oldPersonId # NoPerson
            THEN FirstIndex({ix \in Idx(ss) : ss[ix].date = date /\ ss[ix].level = level
                                          /\ ss[ix].personId = oldPersonId})
            ELSE 0
        updatedShifts == IF indexToRemove # 0 THEN RemoveAt(ss, indexToRemove) ELSE ss
        otherLevel == IF level = "1A" THEN "1B" ELSE "1A"
        hasOther ==
            /\ level \in {"1A", "1B"}
            /\ \E i \in 1..Len(updatedShifts) :
                  /\ updatedShifts[i].date = date
                  /\ updatedShifts[i].level = otherLevel
                  /\ updatedShifts[i].personId = newPersonId
        alreadyAssigned ==
            \E i \in 1..Len(updatedShifts) :
                /\ updatedShifts[i].date = date
                /\ updatedShifts[i].level = level
                /\ updatedShifts[i].personId = newPersonId
    IN IF newPersonId = NoPerson THEN [shifts |-> updatedShifts, alert |-> NoAlert]
       ELSE IF hasOther THEN [shifts |-> updatedShifts, alert |-> AlertBoth]
       ELSE IF alreadyAssigned THEN [shifts |-> updatedShifts, alert |-> NoAlert]
       ELSE [shifts |-> Append(updatedShifts, Shift(date, newPersonId, level)),
             alert |-> NoAlert]

\* updateShift: [shifts |-> the list handed to setShifts (the old one if it returns early),
\*               alert |-> the alert shown]
updateShiftResult(ss, date, level, oldPersonId, newPersonId) ==
    LET indexToRemove ==
            IF oldPersonId # NoPerson
            THEN FirstIndex({ix \in Idx(ss) : ss[ix].date = date /\ ss[ix].level = level
                                          /\ ss[ix].personId = oldPersonId})
            ELSE 0
        updatedShifts == IF indexToRemove # 0 THEN RemoveAt(ss, indexToRemove) ELSE ss
        otherLevel == IF level = "1A" THEN "1B" ELSE "1A"
        hasOther ==
            /\ level \in {"1A", "1B"}
            /\ \E i \in 1..Len(updatedShifts) :
                  /\ updatedShifts[i].date = date
                  /\ updatedShifts[i].level = otherLevel
                  /\ updatedShifts[i].personId = newPersonId
        alreadyAssigned ==
            \E i \in 1..Len(updatedShifts) :
                /\ updatedShifts[i].date = date
                /\ updatedShifts[i].level = level
                /\ updatedShifts[i].personId = newPersonId
    IN IF newPersonId = NoPerson THEN [shifts |-> updatedShifts, alert |-> NoAlert]
       ELSE IF hasOther THEN [shifts |-> ss, alert |-> AlertBoth]
       ELSE IF alreadyAssigned THEN [shifts |-> updatedShifts, alert |-> NoAlert]
       ELSE [shifts |-> Append(updatedShifts, Shift(date, newPersonId, level)),
             alert |-> NoAlert]

\* limits = { '1A': 1, '1B': 1, '2': 1, '3': 1 }: any other level has no entry
hasLimit(level) == level \in {"1A", "1B", "2", "3"}

toggleShiftResult(ss, date, personId, level) ==
    LET existingShift ==
            \E i \in 1..Len(ss) :
                ss[i].date = date /\ ss[i].personId = personId /\ ss[i].level = level
        levelCount == Count({ix \in Idx(ss) : ss[ix].date = date /\ ss[ix].level = level})
        sameOnBoth ==
            /\ level \in {"1A", "1B"}
            /\ \E i \in 1..Len(ss) :
                  /\ ss[i].date = date
                  /\ ss[i].level \in {"1A", "1B"}
                  /\ ss[i].personId = personId
    IN IF existingShift
       THEN [shifts |-> SelectSeq(ss, LAMBDA s : ~(s.date = date /\ s.personId = personId
                                                    /\ s.level = level)),
             alert |-> NoAlert]
       ELSE IF hasLimit(level) /\ levelCount >= LevelLimit
       THEN [shifts |-> ss, alert |-> AlertLimit]
       ELSE IF sameOnBoth THEN [shifts |-> ss, alert |-> AlertBoth]
       ELSE [shifts |-> Append(ss, Shift(date, personId, level)), alert |-> NoAlert]

\* the ids a caller can name: the roster's, and the sentinel of a locked slot
Assignable(ps) == rosterIds(ps) \cup {LOCKED}

UpdateShift(date, level, oldPersonId, newPersonId) ==
    LET r == updateShiftResult(shifts, date, level, oldPersonId, newPersonId)
    IN /\ isExcelUnlocked
       /\ Len(r.shifts) <= MaxShifts
       /\ shifts' = r.shifts
       /\ lastOp' = [op |-> "updateShift", alert |-> r.alert]
       /\ editedInFlight' = (editedInFlight \/ (uploadPhase = "inFlight" /\ r.shifts # shifts))
       /\ UNCHANGED <<versions, serverVars,
                      people, firstCallCount, manualHighlights, isExcelUnlocked, uploadPhase>>

ToggleShift(date, personId, level) ==
    LET r == toggleShiftResult(shifts, date, personId, level)
    IN /\ isExcelUnlocked
       /\ Len(r.shifts) <= MaxShifts
       /\ shifts' = r.shifts
       /\ lastOp' = [op |-> "toggleShift", alert |-> r.alert]
       /\ UNCHANGED <<versions, editedInFlight, serverVars,
                      people, firstCallCount, manualHighlights, isExcelUnlocked, uploadPhase>>

----------------------------------------------------------------------------
(* Image import *)

importLevels == {"1A", "1B", "2", "3"}

\* what the import service may answer in data.shifts; NoDate, a value outside
\* Dates, stands for a shift whose date is missing (falsy in the filter)
NoDate == DaysInMonth + 2

ImportResponses ==
    { << >>,
      <<Shift(1, "p1", "1A"), Shift(1, "p1", "1B")>>,
      <<Shift(0, "p2", "2"), Shift(1, "p3", "1C")>>,
      <<Shift(1, "p2", "2"), Shift(1, NoPerson, "3"), Shift(NoDate, "p1", "3")>>,
      <<Shift(2, "p3", "3"), Shift(2, "p1", "3")>> }

isValidImport(s) == s.date # NoDate /\ s.personId # NoPerson /\ s.level \in importLevels

RECURSIVE mergeImported(_, _)
\* validShifts.forEach: drop the first shift of the same slot, then push
mergeImported(newShifts, validShifts) ==
    IF validShifts = << >> THEN newShifts
    ELSE LET vs == Head(validShifts)
             idx == FirstIndex({ix \in Idx(newShifts) :
                                  newShifts[ix].date = vs.date /\ newShifts[ix].level = vs.level})
             dropped == IF idx # 0 THEN RemoveAt(newShifts, idx) ELSE newShifts
         IN mergeImported(Append(dropped, vs), Tail(validShifts))

\* variant: the merge starts from an empty list, not from the current one
importResultFromScratch(prev, extractedShifts) ==
    mergeImported(<< >>, SelectSeq(extractedShifts, isValidImport))

importResult(prev, extractedShifts) ==
    mergeImported(prev, SelectSeq(extractedShifts, isValidImport))

\* an upload whose answer arrives before anything else happens: the file input is
\* disabled while locked or uploading, and the flag is set and reset on the way
ImportCompleted(extractedShifts) ==
    /\ isExcelUnlocked /\ uploadPhase = "idle"
    /\ Len(shifts) < MaxShifts
    /\ shifts' = importResult(shifts, extractedShifts)
    /\ lastOp' = [op |-> "import", alert |-> NoAlert]
    /\ UNCHANGED <<versions, editedInFlight, serverVars,
                   people, firstCallCount, manualHighlights, isExcelUnlocked, uploadPhase>>

----------------------------------------------------------------------------
(* Auto-fill and the first-call columns *)

GenerateSchedule(confirmed) ==
    /\ isExcelUnlocked
    /\ shifts' = IF confirmed
                 THEN generateScheduleResult(people, shifts, firstCallCount, manualHighlights)
                 ELSE shifts
    /\ lastOp' = [op |-> IF confirmed THEN "generateSchedule" ELSE "generateScheduleCancelled",
                  alert |-> NoAlert]
    /\ UNCHANGED <<versions, editedInFlight, serverVars,
                   people, firstCallCount, manualHighlights, isExcelUnlocked, uploadPhase>>

Min2(a, b) == IF a < b THEN a ELSE b

Max2(a, b) == IF a > b THEN a ELSE b

AddFirstCallColumn ==
    /\ isExcelUnlocked
    /\ firstCallCount < MaxFirstCallCount
    /\ firstCallCount < MaxCols
    /\ firstCallCount' = Min2(MaxFirstCallCount, firstCallCount + 1)
    /\ lastOp' = [op |-> "setFirstCallCount", alert |-> NoAlert]
    /\ UNCHANGED <<versions, editedInFlight, serverVars,
                   people, shifts, manualHighlights, isExcelUnlocked, uploadPhase>>

RemoveFirstCallColumn ==
    /\ isExcelUnlocked
    /\ firstCallCount > MinFirstCallCount
    /\ firstCallCount' = Max2(MinFirstCallCount, firstCallCount - 1)
    /\ lastOp' = [op |-> "setFirstCallCount", alert |-> NoAlert]
    /\ UNCHANGED <<versions, editedInFlight, serverVars,
                   people, shifts, manualHighlights, isExcelUnlocked, uploadPhase>>

----------------------------------------------------------------------------
(* Lock mode *)

\* the password modal accepted the password
Unlock ==
    /\ ~isExcelUnlocked
    /\ isExcelUnlocked' = TRUE
    /\ lastOp' = [op |-> "unlock", alert |-> NoAlert]
    /\ UNCHANGED <<versions, editedInFlight, serverVars,
                   people, shifts, firstCallCount, manualHighlights, uploadPhase>>

\* the lock button, pressed while unlocked
Lock ==
    /\ isExcelUnlocked
    /\ isExcelUnlocked' = FALSE
    /\ lastOp' = [op |-> "lock", alert |-> NoAlert]
    /\ UNCHANGED <<versions, editedInFlight, serverVars,
                   people, shifts, firstCallCount, manualHighlights, uploadPhase>>

----------------------------------------------------------------------------
(* The tables of the server (src/unnamed/part_004), empty when created *)

EmptyDb == [people |-> {}, shifts |-> {}, manual_highlights |-> {}, noon_days |-> {},
            versions |-> {}]

----------------------------------------------------------------------------
(* The editor *)

Init ==
    /\ people \in Rosters
    /\ shifts = << >>
    /\ firstCallCount = InitialFirstCallCount
    /\ manualHighlights = {}
    /\ lastOp = [op |-> "init", alert |-> NoAlert]
    /\ isExcelUnlocked = FALSE
    /\ uploadPhase = "idle"
    /\ versions = << >>
    /\ editedInFlight = FALSE
    /\ db = EmptyDb
    /\ httpStatus = 0

Next ==
    \/ \E date \in EditDates, level \in ConfiguredLevels(firstCallCount),
          oldPersonId \in Assignable(people) \cup {NoPerson},
          newPersonId \in Assignable(people) \cup {NoPerson} :
            UpdateShift(date, level, oldPersonId, newPersonId)
    \/ \E date \in EditDates, personId \in Assignable(people),
          level \in ConfiguredLevels(firstCallCount) :
            ToggleShift(date, personId, level)
    \/ \E extractedShifts \in ImportResponses : ImportCompleted(extractedShifts)
    \/ \E confirmed \in BOOLEAN : GenerateSchedule(confirmed)
    \/ AddFirstCallColumn
    \/ RemoveFirstCallColumn
    \/ Unlock
    \/ Lock

Spec == Init /\ [][Next]_vars

----------------------------------------------------------------------------
(* Auto-fill as a function of its inputs: the roster, the column count, the *)
(* highlights and the shifts already present are drawn at the start.        *)

\* assignments the pass may find already present
FillInputShifts ==
    { Shift(1, "p1", "2"), Shift(1, "p2", "1A"), Shift(1, LOCKED, "1A"),
      Shift(2, "p3", "2"), Shift(3, "p1", "1B"), Shift(3, "p2", "2"),
      Shift(0, "p1", "3"), Shift(DaysInMonth + 1, "p2", "1A") }

RECURSIVE SeqsUpTo(_, _)
SeqsUpTo(S, n) ==
    IF n = 0 THEN {<< >>}
    ELSE LET shorter == SeqsUpTo(S, n - 1)
         IN shorter \cup {Append(q, x) : q \in shorter, x \in S}

InitFill ==
    /\ people \in Rosters
    /\ shifts \in SeqsUpTo(FillInputShifts, MaxShifts)
    /\ firstCallCount \in MinFirstCallCount..Min2(MaxFirstCallCount, MaxCols)
    /\ manualHighlights \in SUBSET HighlightDates
    /\ lastOp = [op |-> "init", alert |-> NoAlert]
    /\ isExcelUnlocked = TRUE
    /\ uploadPhase = "idle"
    /\ versions = << >>
    /\ editedInFlight = FALSE
    /\ db = EmptyDb
    /\ httpStatus = 0

NextFill == \E confirmed \in BOOLEAN : GenerateSchedule(confirmed)

SpecFill == InitFill /\ [][NextFill]_vars

----------------------------------------------------------------------------
(* Vocabulary of the properties *)

isFillStep == lastOp'.op = "generateSchedule"

afterFill == lastOp.op = "generateSchedule"

\* the assignments a step appended to the list
addedBy(in, out) == SubSeq(out, Len(in) + 1, Len(out))

levelIndex(level, fcc) == CHOOSE i \in 1..Len(Slots(fcc)) : Slots(fcc)[i].level = level

\* position of a slot of the month in the order of the pass
orderOf(date, level, fcc) == (date - 1) * Len(Slots(fcc)) + levelIndex(level, fcc)

monthTotal(ss, id) == Count({ix \in Idx(ss) : InCurrentMonth(ss[ix].date) /\ ss[ix].personId = id})

monthHoliday(ss, id, highlights) ==
    Count({ix \in Idx(ss) : InCurrentMonth(ss[ix].date) /\ ss[ix].personId = id
                         /\ isHolidayType(ss[ix].date, highlights)})

monthWeekday(ss, id, highlights) ==
    Count({ix \in Idx(ss) : InCurrentMonth(ss[ix].date) /\ ss[ix].personId = id
                         /\ ~isHolidayType(ss[ix].date, highlights)})

isRealPerson(id) == id # LOCKED /\ id # NoPerson

----------------------------------------------------------------------------
(* C1: auto-fill only appends: the list before the pass is kept as it is    *)
(* (locked entries and other months included), and nothing is added at a    *)
(* (date, level) that held any assignment before the pass.                  *)
C1_FillOnlyEmptySlots ==
    [][isFillStep =>
        /\ IsPrefix(shifts, shifts')
        /\ \A i \in (Len(shifts) + 1)..Len(shifts') :
              ~\E j \in 1..Len(shifts) :
                  shifts[j].date = shifts'[i].date /\ shifts[j].level = shifts'[i].level
      ]_vars

\* a pass has added to a list that held a locked slot of the month and another month's shift
C1_Witness ==
    /\ afterFill
    /\ Len(shifts) > MaxShifts
    /\ \E i \in 1..Len(shifts) : shifts[i].personId = LOCKED /\ InCurrentMonth(shifts[i].date)
    /\ \E i \in 1..Len(shifts) : ~InCurrentMonth(shifts[i].date)

(* C2: auto-fill is idempotent: a pass that follows a pass directly adds     *)
(* nothing.                                                                 *)
C2_FillIdempotent ==
    [][(afterFill /\ isFillStep) => shifts' = shifts]_vars

\* a pass has added assignments and left a slot of the month empty
C2_Witness ==
    /\ afterFill
    /\ Len(shifts) > MaxShifts
    /\ people # << >>
    /\ \E d \in MonthDays, l \in ConfiguredLevels(firstCallCount) : ~slotTaken(shifts, d, l)

(* C3: the output is the input plus exactly one assignment for each slot of  *)
(* the month (levels 2, 3 and the configured first-call letters) that was    *)
(* empty and had an eligible candidate when the pass reached it, the person  *)
(* being one of those candidates; other slots get nothing; with an empty     *)
(* roster the output is the input.                                          *)
fillExact(ps, in, out, fcc, highlights) ==
    LET added == addedBy(in, out)
        n == Len(Slots(fcc))
        reached(k) ==
            in \o SelectSeq(added, LAMBDA s : orderOf(s.date, s.level, fcc) < k)
        at(k) == SelectSeq(added, LAMBDA s : orderOf(s.date, s.level, fcc) = k)
    IN /\ IsPrefix(in, out)
       /\ \A i \in 1..Len(added) :
             InCurrentMonth(added[i].date) /\ added[i].level \in ConfiguredLevels(fcc)
       /\ \A k \in 1..(DaysInMonth * n) :
             LET day == ((k - 1) \div n) + 1
                 slot == Slots(fcc)[((k - 1) % n) + 1]
                 cur == reached(k)
                 eligible == eligibleOf(ps, cur, initialCounts(ps, cur, highlights), day, slot,
                                        isHolidayType(day, highlights))
             IN IF ~slotTaken(cur, day, slot.level) /\ Len(eligible) > 0
                THEN Len(at(k)) = 1 /\ at(k)[1].personId \in rosterIds(eligible)
                ELSE Len(at(k)) = 0
       /\ (ps = << >> => out = in)

C3_FillExact ==
    [][isFillStep => fillExact(people, shifts, shifts', firstCallCount, manualHighlights)]_vars

\* a pass has filled some slots and skipped an empty one for lack of candidates
C3_Witness ==
    /\ afterFill
    /\ Len(shifts) > MaxShifts + 1
    /\ \E d \in MonthDays, l \in {"2", "3"} : ~slotTaken(shifts, d, l)

----------------------------------------------------------------------------
(* Manual placements, as seen in a step *)

isManualStep == lastOp'.op \in {"updateShift", "toggleShift"}

\* the step is a manual edit that was accepted and put e into the list
placed(e) ==
    /\ isManualStep
    /\ lastOp'.alert = NoAlert
    /\ Len(shifts') > 0
    /\ shifts'[Len(shifts')] = e
    /\ Count({ix \in Idx(shifts') : shifts'[ix] = e})
         > Count({ix \in Idx(shifts) : shifts[ix] = e})

placeable == {Shift(d, id, l) : d \in Dates, id \in PersonIds,
                                l \in ConfiguredLevels(MaxFirstCallCount)}

\* someone holds two different first-call letters of the configured columns on one date
doubleFirstCall(ss, fcc) ==
    \E i, j \in 1..Len(ss) :
        /\ ss[i].date = ss[j].date
        /\ ss[i].personId = ss[j].personId
        /\ isRealPerson(ss[i].personId)
        /\ ss[i].level # ss[j].level
        /\ StartsWith1(ss[i].level) /\ ss[i].level \in ConfiguredLevels(fcc)
        /\ StartsWith1(ss[j].level) /\ ss[j].level \in ConfiguredLevels(fcc)

\* a date with an "R" person on first call and an "All Calls" person on level 2
groupClashOn(ps, ss, date) ==
    \E i, j \in 1..Len(ss) :
        /\ ss[i].date = date /\ StartsWith1(ss[i].level) /\ groupOf(ps, ss[i].personId) = "r"
        /\ ss[j].date = date /\ ss[j].level = "2" /\ groupOf(ps, ss[j].personId) = "all calls"

(* C4: an accepted manual placement on a first-call letter never leaves the  *)
(* person on a second first-call letter of the configured columns that day.  *)
C4_FirstCallExclusivityChecked ==
    [][\A e \in placeable :
          (placed(e) /\ StartsWith1(e.level) /\ e.level \in ConfiguredLevels(firstCallCount))
          => ~\E i \in 1..Len(shifts') :
                 /\ shifts'[i].date = e.date
                 /\ shifts'[i].personId = e.personId
                 /\ shifts'[i].level # e.level
                 /\ StartsWith1(shifts'[i].level)
                 /\ shifts'[i].level \in ConfiguredLevels(firstCallCount)
      ]_vars

(* C5: no person is under two distinct first-call letters on one date, in    *)
(* every state reached by manual edits, auto-fills, imports, column changes. *)
C5_NoFirstCallDoubleBooking == ~doubleFirstCall(shifts, MaxFirstCallCount)

(* C6: every (date, level) holds at most one assignment that is not LOCKED.  *)
C6_OnePerSlot ==
    \A d \in Dates, l \in ConfiguredLevels(MaxFirstCallCount) :
        Count({ix \in Idx(shifts) : /\ shifts[ix].date = d /\ shifts[ix].level = l
                                    /\ shifts[ix].personId # LOCKED}) <= 1

(* C7: after an auto-fill no date has an "R" person on first call together   *)
(* with an "All Calls" person on level 2.                                    *)
C7_FillGroupExclusion ==
    afterFill => \A d \in Dates : ~groupClashOn(people, shifts, d)

(* C8: after an accepted manual placement the date of the placement has no   *)
(* "R" person on first call together with an "All Calls" person on level 2.  *)
C8_ManualGroupExclusion ==
    [][\A e \in placeable : placed(e) => ~groupClashOn(people, shifts', e.date)]_vars

(* C9: auto-fill respects the caps that are set: it adds no assignment for a *)
(* person whose tally of the month has reached the total cap, or the cap of  *)
(* the day's type; a total within the cap before the pass is within it after *)
(* the pass; and a slot that stays empty is never withheld from a person by  *)
(* a cap that is unset.                                                      *)
setCapReached(person, ss, day, highlights) ==
    \/ (person.targetTotal > 0 /\ monthTotal(ss, person.id) >= person.targetTotal)
    \/ /\ isHolidayType(day, highlights)
       /\ person.targetHoliday > 0
       /\ monthHoliday(ss, person.id, highlights) >= person.targetHoliday
    \/ /\ ~isHolidayType(day, highlights)
       /\ person.targetWeekday > 0
       /\ monthWeekday(ss, person.id, highlights) >= person.targetWeekday

passesOtherFilters(ps, ss, person, day, slot) ==
    /\ ~roleExcludes(slot, person)
    /\ day \notin person.unavailableDates
    /\ ~\E i \in 1..Len(ss) :
           ss[i].personId = person.id /\ ss[i].date \in {day - 1, day, day + 1}
    /\ ~groupExcludes(ps, ss, person, day, slot)

capsRespected(ps, in, out, fcc, highlights) ==
    /\ \A i \in (Len(in) + 1)..Len(out) :
          ~setCapReached(findPerson(ps, out[i].personId), SubSeq(out, 1, i - 1),
                         out[i].date, highlights)
    /\ \A j \in 1..Len(ps) :
          (ps[j].targetTotal > 0 /\ monthTotal(in, ps[j].id) <= ps[j].targetTotal)
          => monthTotal(out, ps[j].id) <= ps[j].targetTotal
    /\ \A d \in MonthDays, k \in 1..Len(Slots(fcc)), j \in 1..Len(ps) :
          (~slotTaken(out, d, Slots(fcc)[k].level)
           /\ passesOtherFilters(ps, out, ps[j], d, Slots(fcc)[k]))
          => setCapReached(ps[j], out, d, highlights)

C9_FillRespectsCaps ==
    [][isFillStep => capsRespected(people, shifts, shifts', firstCallCount,
                                   manualHighlights)]_vars

\* a pass has left a slot empty that only a reached cap keeps from some person
C9_Witness ==
    /\ afterFill
    /\ Len(shifts) > MaxShifts
    /\ \E d \in MonthDays, k \in 1..Len(Slots(firstCallCount)), j \in 1..Len(people) :
          /\ ~slotTaken(shifts, d, Slots(firstCallCount)[k].level)
          /\ passesOtherFilters(people, shifts, people[j], d, Slots(firstCallCount)[k])
          /\ people[j].targetTotal > 0
          /\ monthTotal(shifts, people[j].id) = people[j].targetTotal

(* C10: a manual edit that is rejected (an alert is shown) leaves the list,  *)
(* the roster and the columns as they were.                                  *)
C10_RejectionChangesNothing ==
    [][(isManualStep /\ lastOp'.alert # NoAlert)
        => (shifts' = shifts /\ people' = people /\ firstCallCount' = firstCallCount)]_vars

\* updateShift has refused to put a person on 1B who holds 1A, 1B being held by another
C10_Witness ==
    /\ lastOp = [op |-> "updateShift", alert |-> AlertBoth]
    /\ \E i, j \in 1..Len(shifts) :
          /\ shifts[i].date = shifts[j].date
          /\ shifts[i].level = "1A" /\ shifts[j].level = "1B"
          /\ shifts[i].personId # shifts[j].personId

\* toggleShift has refused an add to a slot that is full
C10_WitnessLimit ==
    /\ lastOp = [op |-> "toggleShift", alert |-> AlertLimit]
    /\ Len(shifts) > 0

----------------------------------------------------------------------------
(* Auto-fill of a two-person roster whose first person already holds day 1 *)

PairRoles == {"first", "others", "both"}

PairRosters ==
    { << Person("p1", r1, "", {}, 0, 0, 0), Person("p2", r2, "", {}, 0, 0, 0) >> :
        r1 \in PairRoles, r2 \in PairRoles }

PairInputShifts == {s \in FillInputShifts : s.personId \in {"p1", "p2", LOCKED}}

InitAdjacency ==
    /\ people \in PairRosters
    /\ firstCallCount \in MinFirstCallCount..Min2(MaxFirstCallCount, MaxCols)
    /\ shifts \in { <<Shift(1, "p1", l)>> \o rest :
                      l \in ConfiguredLevels(Min2(MaxFirstCallCount, MaxCols)),
                      rest \in SeqsUpTo(PairInputShifts, MaxShifts - 1) }
    /\ manualHighlights \in SUBSET HighlightDates
    /\ lastOp = [op |-> "init", alert |-> NoAlert]
    /\ isExcelUnlocked = TRUE
    /\ uploadPhase = "idle"
    /\ versions = << >>
    /\ editedInFlight = FALSE
    /\ db = EmptyDb
    /\ httpStatus = 0

NextAdjacency == \E confirmed \in BOOLEAN : GenerateSchedule(confirmed)

SpecAdjacency == InitAdjacency /\ [][NextAdjacency]_vars

\* the list the pass works on when it reaches the k-th slot of the month
reachedAt(in, out, fcc, k) ==
    in \o SelectSeq(addedBy(in, out), LAMBDA s : orderOf(s.date, s.level, fcc) < k)

\* person id passes every filter of the pass at slot (day, level), given the list cur
eligibleAt(ps, cur, id, day, level, fcc, highlights) ==
    /\ ~slotTaken(cur, day, level)
    /\ isEligible(ps, cur, initialCounts(ps, cur, highlights), findPerson(ps, id), day,
                  Slots(fcc)[levelIndex(level, fcc)], isHolidayType(day, highlights))

\* apart from the first person's day 1, nothing in the list or the roster stands
\* between person id and slot (2, level)
otherwiseEligible(ps, ss, id, level, fcc) ==
    /\ ~slotTaken(ss, 2, level)
    /\ ~roleExcludes(Slots(fcc)[levelIndex(level, fcc)], findPerson(ps, id))
    /\ \A i \in Idx(ss) : ss[i].personId = id => (id = "p1" /\ ss[i].date = 1)

givenTo(in, out, day, id) ==
    \E i \in (Len(in) + 1)..Len(out) : out[i].date = day /\ out[i].personId = id

(* C11, as stated: with two people, the first holding day 1 and both         *)
(* otherwise eligible for a slot of day 2, auto-fill gives day 2 to the      *)
(* second person and not to the first.                                       *)
C11_AdjacencyAsStated ==
    [][(isFillStep /\ \E l \in ConfiguredLevels(firstCallCount) :
                         /\ otherwiseEligible(people, shifts, "p1", l, firstCallCount)
                         /\ otherwiseEligible(people, shifts, "p2", l, firstCallCount))
        => (givenTo(shifts, shifts', 2, "p2") /\ ~givenTo(shifts, shifts', 2, "p1"))]_vars

(* C11, amended: with two people, the first holding day 1, auto-fill never   *)
(* gives day 2 to the first person, and gives a slot of day 2 to the second  *)
(* person whenever the second person still passes every filter when the pass *)
(* reaches that slot (in particular was not given a slot of day 1 or day 2   *)
(* earlier in the same pass).                                                *)
C11_AdjacencyAmended ==
    [][isFillStep =>
        /\ ~givenTo(shifts, shifts', 2, "p1")
        /\ \A l \in ConfiguredLevels(firstCallCount) :
              eligibleAt(people,
                         reachedAt(shifts, shifts', firstCallCount, orderOf(2, l, firstCallCount)),
                         "p2", 2, l, firstCallCount, manualHighlights)
              => \E i \in (Len(shifts) + 1)..Len(shifts') :
                     shifts'[i] = Shift(2, "p2", l)
      ]_vars

\* the pass gave a slot of day 2 to the second person, for which the first person
\* had the role and was kept out only by holding day 1
C11_Witness ==
    /\ afterFill
    /\ \E i \in Idx(shifts) :
          /\ i > 1
          /\ shifts[i].date = 2 /\ shifts[i].personId = "p2"
          /\ ~roleExcludes(Slots(firstCallCount)[levelIndex(shifts[i].level, firstCallCount)],
                           findPerson(people, "p1"))
          /\ \A j \in Idx(shifts) : shifts[j].personId = "p1" => shifts[j].date # 2
    /\ shifts[1].personId = "p1" /\ shifts[1].date = 1

----------------------------------------------------------------------------
(* Roster removal, month clearing, and the upload as it runs in the background *)

\* variant: only the person's shifts of the displayed month are dropped
RemovePersonThisMonth(id) ==
    /\ people' = SelectSeq(people, LAMBDA p : p.id # id)
    /\ shifts' = SelectSeq(shifts, LAMBDA s : ~(s.personId = id /\ InCurrentMonth(s.date)))
    /\ lastOp' = [op |-> "removePerson", alert |-> NoAlert]
    /\ UNCHANGED <<versions, editedInFlight, serverVars,
                   firstCallCount, manualHighlights, isExcelUnlocked, uploadPhase>>

\* removePerson: the button of the person row is not tied to the lock
RemovePerson(id) ==
    /\ people' = SelectSeq(people, LAMBDA p : p.id # id)
    /\ shifts' = SelectSeq(shifts, LAMBDA s : s.personId # id)
    /\ lastOp' = [op |-> "removePerson", alert |-> NoAlert]
    /\ UNCHANGED <<versions, editedInFlight, serverVars,
                   firstCallCount, manualHighlights, isExcelUnlocked, uploadPhase>>

\* the Clear Month button, disabled while locked, with its confirm()
ClearMonth(confirmed) ==
    /\ isExcelUnlocked
    /\ shifts' = IF confirmed THEN SelectSeq(shifts, LAMBDA s : ~InCurrentMonth(s.date))
                 ELSE shifts
    /\ lastOp' = [op |-> IF confirmed THEN "clearMonth" ELSE "clearMonthCancelled",
                  alert |-> NoAlert]
    /\ UNCHANGED <<versions, editedInFlight, serverVars,
                   people, firstCallCount, manualHighlights, isExcelUnlocked, uploadPhase>>

\* handleImageUpload up to the fetch: the file input is disabled while locked or uploading
StartImport ==
    /\ isExcelUnlocked /\ uploadPhase = "idle"
    /\ uploadPhase' = "inFlight"
    /\ lastOp' = [op |-> "startImport", alert |-> NoAlert]
    /\ editedInFlight' = FALSE
    /\ UNCHANGED <<versions, serverVars,
                   people, shifts, firstCallCount, manualHighlights, isExcelUnlocked>>

\* the answer of the import service arrives with a list in data.shifts
ImportAnswered(extractedShifts) ==
    /\ uploadPhase = "inFlight"
    /\ Len(shifts) < MaxShifts
    /\ shifts' = importResult(shifts, extractedShifts)
    /\ uploadPhase' = "imported"
    /\ lastOp' = [op |-> "import", alert |-> NoAlert]
    /\ UNCHANGED <<versions, editedInFlight, serverVars,
                   people, firstCallCount, manualHighlights, isExcelUnlocked>>

\* the setTimeout callback that follows a merged answer
ImportDone ==
    /\ uploadPhase = "imported"
    /\ uploadPhase' = "idle"
    /\ lastOp' = [op |-> "importDone", alert |-> NoAlert]
    /\ UNCHANGED <<versions, editedInFlight, serverVars,
                   people, shifts, firstCallCount, manualHighlights, isExcelUnlocked>>

\* a level no column of the table has
UnknownLevel == "4"

\* the shifts a stored month may hold when the page loads them
SessionShifts ==
    { Shift(1, "p1", "1A"), Shift(2, "p1", "2"), Shift(3, "p1", "1B"),
      Shift(1, "p3", "2"), Shift(1, "p3", "3"), Shift(3, "p2", "2"),
      Shift(2, LOCKED, "2"), Shift(0, "p1", "3"), Shift(DaysInMonth + 1, "p2", "1A") }

\* the page after the load effect: people and shifts as stored, the editor locked
InitSession ==
    /\ people \in Rosters
    /\ shifts \in SeqsUpTo(SessionShifts, MaxShifts + 1)
    /\ firstCallCount = InitialFirstCallCount
    /\ manualHighlights = {}
    /\ lastOp = [op |-> "init", alert |-> NoAlert]
    /\ isExcelUnlocked = FALSE
    /\ uploadPhase = "idle"
    /\ versions = << >>
    /\ editedInFlight = FALSE
    /\ db = EmptyDb
    /\ httpStatus = 0

NextSession ==
    \/ Unlock
    \/ Lock
    \/ \E id \in rosterIds(people) : RemovePerson(id)
    \/ \E confirmed \in BOOLEAN : ClearMonth(confirmed)

SpecSession == InitSession /\ [][NextSession]_vars

\* the editor with an upload running in the background, and with callers of
\* updateShift that name any date and any level
NextRequests ==
    \/ Unlock
    \/ Lock
    \/ StartImport
    \/ \E extractedShifts \in ImportResponses : ImportAnswered(extractedShifts)
    \/ ImportDone
    \/ \E date \in {0, 1}, level \in ConfiguredLevels(firstCallCount) \cup {UnknownLevel},
          oldPersonId \in {NoPerson, "p1"}, newPersonId \in {NoPerson, "p1", LOCKED} :
            UpdateShift(date, level, oldPersonId, newPersonId)

SpecRequests == Init /\ [][NextRequests]_vars

----------------------------------------------------------------------------
(* Conflicts & Warnings report *)

\* x put behind every element whose date is not later (the sort is stable)
InsertByDate(x, s) ==
    LET n == Cardinality({i \in Idx(s) : s[i].date <= x.date})
    IN SubSeq(s, 1, n) \o <<x>> \o SubSeq(s, n + 1, Len(s))

RECURSIVE sortByDate(_)
\* .sort((a, b) => a.date.localeCompare(b.date))
sortByDate(s) ==
    IF s = << >> THEN << >>
    ELSE InsertByDate(s[Len(s)], sortByDate(SubSeq(s, 1, Len(s) - 1)))

\* variant: the locked entries of the month are taken into every person's row
personMonthShiftsWithLocked(ss, person) ==
    sortByDate(SelectSeq(ss, LAMBDA s : s.personId \in {person.id, LOCKED}
                                       /\ InCurrentMonth(s.date)))

personMonthShifts(ss, person) ==
    sortByDate(SelectSeq(ss, LAMBDA s : s.personId = person.id /\ InCurrentMonth(s.date)))

\* Math.abs of a difference of days
diffDays(d1, d2) == IF d2 >= d1 THEN d2 - d1 ELSE d1 - d2

NoFindings == [consecutive |-> << >>, oneDayGap |-> << >>, violations |-> << >>]

\* variant: every difference up to 2 that is not 1 is listed as a one-day gap
scanStepLoose(pms, i, person, acc) ==
    LET s == pms[i]
        withV == IF s.date \in person.unavailableDates
                 THEN [acc EXCEPT !.violations = Append(@, s.date)]
                 ELSE acc
    IN IF i < Len(pms)
       THEN LET d1 == s.date
                d2 == pms[i + 1].date
            IN IF diffDays(d1, d2) = 1
               THEN [withV EXCEPT !.consecutive = Append(@, <<d1, d2>>)]
               ELSE IF diffDays(d1, d2) <= 2
               THEN [withV EXCEPT !.oneDayGap = Append(@, <<d1, d2>>)]
               ELSE withV
       ELSE withV

\* the body of personMonthShifts.forEach((s, i) => ...) of the table rows
scanStep(pms, i, person, acc) ==
    LET s == pms[i]
        withV == IF s.date \in person.unavailableDates
                 THEN [acc EXCEPT !.violations = Append(@, s.date)]
                 ELSE acc
    IN IF i < Len(pms)
       THEN LET d1 == s.date
                d2 == pms[i + 1].date
            IN IF diffDays(d1, d2) = 1
               THEN [withV EXCEPT !.consecutive = Append(@, <<d1, d2>>)]
               ELSE IF diffDays(d1, d2) = 2
               THEN [withV EXCEPT !.oneDayGap = Append(@, <<d1, d2>>)]
               ELSE withV
       ELSE withV

RECURSIVE scanFrom(_, _, _, _)
scanFrom(pms, i, person, acc) ==
    IF i > Len(pms) THEN acc
    ELSE scanFrom(pms, i + 1, person, scanStep(pms, i, person, acc))

\* consecutive, oneDayGap and violations of one person's row
findingsOf(ss, person) == scanFrom(personMonthShifts(ss, person), 1, person, NoFindings)

\* the row is rendered unless the three lists are empty
rowShown(ss, person) == findingsOf(ss, person) # NoFindings

\* hasIssue of the closing row
hasIssue(ss, person) ==
    LET pms == personMonthShifts(ss, person)
    IN \E i \in Idx(pms) :
          \/ pms[i].date \in person.unavailableDates
          \/ (i < Len(pms) /\ diffDays(pms[i].date, pms[i + 1].date) <= 2)

\* the "No conflicts or warnings found" row is rendered
noConflictBanner(ps, ss) == \A k \in Idx(ps) : ~hasIssue(ss, ps[k])

Range(s) == {s[i] : i \in Idx(s)}

\* the dates of the month on which the person holds an assignment
monthDatesOf(ss, id) ==
    {ss[i].date : i \in {ix \in Idx(ss) : ss[ix].personId = id /\ InCurrentMonth(ss[ix].date)}}

(* C12: in a person's row, the consecutive list holds exactly the pairs of   *)
(* held dates one day apart, the one-day-gap list exactly the pairs of held  *)
(* dates two days apart with no held date between them (so that they are     *)
(* adjacent in date order), each pair once and in one list only, and the     *)
(* violations are exactly the held dates of the unavailable-dates list.      *)
C12_ReportClassifies ==
    \A k \in Idx(people) :
        LET person == people[k]
            f == findingsOf(shifts, person)
            D == monthDatesOf(shifts, person.id)
        IN /\ Range(f.consecutive) = {<<a, a + 1>> : a \in {x \in D : x + 1 \in D}}
           /\ Range(f.oneDayGap) =
                 {<<a, a + 2>> : a \in {x \in D : x + 2 \in D /\ x + 1 \notin D}}
           /\ Len(f.consecutive) = Cardinality(Range(f.consecutive))
           /\ Len(f.oneDayGap) = Cardinality(Range(f.oneDayGap))
           /\ Range(f.consecutive) \cap Range(f.oneDayGap) = {}
           /\ Range(f.violations) = D \cap person.unavailableDates

\* after a change of the roster or the month, a person holds three days in a
\* row, one of them an unavailable date
C12_Witness ==
    /\ lastOp.op # "init"
    /\ \E k \in Idx(people) :
          LET f == findingsOf(shifts, people[k])
          IN Len(f.consecutive) = 2 /\ f.oneDayGap = << >> /\ f.violations # << >>

(* C13: the closing "no conflicts" row is shown exactly when no person has a *)
(* row, that is when every person's consecutive, one-day-gap and violations  *)
(* lists are empty, also when a person holds two assignments on one date.    *)
C13_BannerIffNoFindings ==
    noConflictBanner(people, shifts) <=> (\A k \in Idx(people) : ~rowShown(shifts, people[k]))

----------------------------------------------------------------------------
(* Lock mode, destruction, atomicity *)

(* C14: while the editor is locked (isExcelUnlocked = FALSE) no step, of the *)
(* user or of a pending upload, changes the list of shifts.                  *)
C14_LockedMeansFrozen == [][~isExcelUnlocked => shifts' = shifts]_vars

\* how often the assignment e is in the list
copiesOf(ss, e) == Count({ix \in Idx(ss) : ss[ix] = e})

(* C15: removing a person drops every assignment of that person, of every    *)
(* month, and keeps every other assignment as often as it was there;         *)
(* clearing the month drops every assignment dated in the month and keeps    *)
(* every assignment of other months as often as it was there.                *)
C15_DestructionExact ==
    [][/\ lastOp'.op = "removePerson" =>
            \E id \in rosterIds(people) \ rosterIds(people') :
                /\ rosterIds(people') = rosterIds(people) \ {id}
                /\ \A e \in Range(shifts) \cup Range(shifts') :
                      copiesOf(shifts', e) = IF e.personId = id THEN 0 ELSE copiesOf(shifts, e)
       /\ lastOp'.op = "clearMonth" =>
            \A e \in Range(shifts) \cup Range(shifts') :
                copiesOf(shifts', e) = IF InCurrentMonth(e.date) THEN 0 ELSE copiesOf(shifts, e)
      ]_vars

\* a person was removed and assignments of this month and of another month remain
C15_Witness ==
    /\ lastOp.op = "removePerson"
    /\ \E i, j \in Idx(shifts) : InCurrentMonth(shifts[i].date) /\ ~InCurrentMonth(shifts[j].date)
    /\ \A i \in Idx(shifts) : shifts[i].personId \in rosterIds(people) \cup {LOCKED}

\* an empty slot of the month for which the roster has a candidate
openSlot(ps, ss, fcc, highlights) ==
    \E d \in MonthDays, k \in Idx(Slots(fcc)) :
        /\ ~slotTaken(ss, d, Slots(fcc)[k].level)
        /\ eligibleOf(ps, ss, initialCounts(ps, ss, highlights), d, Slots(fcc)[k],
                      isHolidayType(d, highlights)) # << >>

(* C16: a cancelled auto-fill leaves the list as it is; a confirmed one      *)
(* goes, in the one step, from the input to the month processed to its end:  *)
(* the input is kept and no empty slot with a candidate is left over.        *)
C16_FillAtomic ==
    [][/\ lastOp'.op = "generateScheduleCancelled" => shifts' = shifts
       /\ isFillStep =>
            /\ IsPrefix(shifts, shifts')
            /\ ~openSlot(people, shifts', firstCallCount, manualHighlights)
      ]_vars

\* the confirmation was cancelled with slots of the month still to fill
C16_Witness ==
    /\ lastOp.op = "generateScheduleCancelled"
    /\ shifts # << >>
    /\ openSlot(people, shifts, firstCallCount, manualHighlights)

----------------------------------------------------------------------------
(* The LOCKED sentinel *)

withoutLocked(ss) == SelectSeq(ss, LAMBDA s : s.personId # LOCKED)

(* C17: a LOCKED assignment keeps auto-fill from adding at its slot, and it  *)
(* is in nobody's tally and in nobody's findings: with every LOCKED entry    *)
(* taken out of the list, each person's total / holiday / weekday tally and  *)
(* each person's consecutive, one-day-gap and violations lists are the same. *)
C17_LockedIsNoPerson ==
    [][isFillStep =>
        /\ \A i \in (Len(shifts) + 1)..Len(shifts') :
              ~\E j \in Idx(shifts) :
                  /\ shifts[j].personId = LOCKED
                  /\ shifts[j].date = shifts'[i].date /\ shifts[j].level = shifts'[i].level
        /\ LOCKED \notin DOMAIN initialCounts(people, shifts', manualHighlights)
        /\ initialCounts(people, shifts', manualHighlights)
             = initialCounts(people, withoutLocked(shifts'), manualHighlights)
        /\ \A k \in Idx(people) :
              findingsOf(shifts', people[k]) = findingsOf(withoutLocked(shifts'), people[k])
      ]_vars

\* after a pass, a locked slot of the month lies next to a day held by a person
C17_Witness ==
    /\ afterFill
    /\ \E i, j \in Idx(shifts) :
          /\ shifts[i].personId = LOCKED /\ InCurrentMonth(shifts[i].date)
          /\ shifts[j].personId \in rosterIds(people)
          /\ diffDays(shifts[i].date, shifts[j].date) = 1
          /\ j > MaxShifts

----------------------------------------------------------------------------
(* Requests that name no slot of the month *)

\* the assignment names a level no column can have, or a date outside the month
malformed(e) ==
    e.level \notin ConfiguredLevels(MaxFirstCallCount) \/ ~InCurrentMonth(e.date)

(* C18: a placement that names an unknown level or a date outside the month  *)
(* is refused and changes nothing: no manual step raises the number of such  *)
(* assignments in the list.                                                  *)
C18_MalformedRefused ==
    [][isManualStep =>
        \A i \in Idx(shifts') :
            malformed(shifts'[i]) => copiesOf(shifts', shifts'[i]) <= copiesOf(shifts, shifts'[i])
      ]_vars

----------------------------------------------------------------------------
(* The 1-day buffer and the categories *)

(* C19: auto-fill adds no assignment for a person who, when the slot is      *)
(* reached, holds an assignment on the same, the previous or the following   *)
(* date: whatever the level or the month, and whether it was in the input or *)
(* was added earlier in the pass.                                            *)
C19_FillOneDayBuffer ==
    [][isFillStep =>
        \A i \in (Len(shifts) + 1)..Len(shifts') :
            \A j \in 1..(i - 1) :
                shifts'[j].personId = shifts'[i].personId
                => diffDays(shifts'[j].date, shifts'[i].date) > 1
      ]_vars

\* a pass has filled day 1 without a person of the roster who holds the last
\* day of the previous month, and has given that person a later day
C19_Witness ==
    /\ afterFill
    /\ \E i \in Idx(shifts) :
          /\ shifts[i].date = 0
          /\ shifts[i].personId \in rosterIds(people)
          /\ \E j \in Idx(shifts) : j > MaxShifts /\ shifts[j].date = 1
          /\ \E j \in Idx(shifts) :
                j > MaxShifts /\ shifts[j].personId = shifts[i].personId /\ shifts[j].date > 1
          /\ \A j \in Idx(shifts) : shifts[j].personId = shifts[i].personId => shifts[j].date # 1

roleOf(ps, id) == findPerson(ps, id).role

(* C20: every assignment auto-fill adds respects the categories: a person of *)
(* role first is added on first-call letters only, a person of role others   *)
(* on levels 2 and 3 only.                                                   *)
C20_FillRespectsCategories ==
    [][isFillStep =>
        \A i \in (Len(shifts) + 1)..Len(shifts') :
            /\ shifts'[i].personId \in rosterIds(people)
            /\ roleOf(people, shifts'[i].personId) = "first" => StartsWith1(shifts'[i].level)
            /\ roleOf(people, shifts'[i].personId) = "others" => shifts'[i].level \in {"2", "3"}
      ]_vars

\* a pass has placed persons of each category, those of role both on a first-call
\* letter and on level 2 or 3
C20_Witness ==
    /\ afterFill
    /\ \E i, j \in Idx(shifts) :
          /\ i > MaxShifts /\ j > MaxShifts
          /\ roleOf(people, shifts[i].personId) = "both" /\ StartsWith1(shifts[i].level)
          /\ roleOf(people, shifts[j].personId) = "both" /\ shifts[j].level \in {"2", "3"}

\* a pass has placed a person of role first and a person of role others
C20_WitnessOnly ==
    /\ afterFill
    /\ \E i, j \in Idx(shifts) :
          /\ i > MaxShifts /\ j > MaxShifts
          /\ roleOf(people, shifts[i].personId) = "first"
          /\ roleOf(people, shifts[j].personId) = "others"

----------------------------------------------------------------------------
(* The choice among the candidates of a slot *)

\* the k-th (day, slot) pair of the pass
dayAt(k, fcc) == ((k - 1) \div Len(Slots(fcc))) + 1

slotAt(k, fcc) == Slots(fcc)[((k - 1) % Len(Slots(fcc))) + 1]

\* the eligible list of the k-th pair, from the list the pass has reached there
eligibleAtOrder(ps, in, out, fcc, highlights, k) ==
    LET cur == reachedAt(in, out, fcc, k)
    IN eligibleOf(ps, cur, initialCounts(ps, cur, highlights), dayAt(k, fcc), slotAt(k, fcc),
                  isHolidayType(dayAt(k, fcc), highlights))

\* the candidate set of the k-th pair
poolAtOrder(ps, in, out, fcc, highlights, k) ==
    bestCandidatesOf(reachedAt(in, out, fcc, k),
                     eligibleAtOrder(ps, in, out, fcc, highlights, k), dayAt(k, fcc))

\* the need score: target - total with a total target, -total without
needScore(person, c) ==
    IF person.targetTotal > 0 THEN person.targetTotal - c.total ELSE 0 - c.total

\* a comes strictly before b under the key (need descending, count of the day's
\* type ascending, total ascending), the need being compared for every pair
keyBefore(a, b, counts, isHol) ==
    LET ca == counts[a.id]
        cb == counts[b.id]
        ta == IF isHol THEN ca.hol ELSE ca.wk
        tb == IF isHol THEN cb.hol ELSE cb.wk
    IN \/ needScore(a, ca) > needScore(b, cb)
       \/ needScore(a, ca) = needScore(b, cb) /\ ta < tb
       \/ needScore(a, ca) = needScore(b, cb) /\ ta = tb /\ ca.total < cb.total

\* rosters for the choice: no total target at all, and one target among three
ChoiceRosters ==
    { << Person("p1", "both", "", {3, 4}, 0, 0, 0), Person("p2", "both", "", {4}, 0, 0, 0) >>,
      << Person("p1", "both", "", {3, 4}, 2, 0, 0), Person("p2", "both", "", {4}, 0, 0, 0),
         Person("p3", "both", "", {}, 3, 0, 0) >> }

ChoiceInputShifts ==
    { Shift(1, "p1", "2"), Shift(1, "p1", "3"), Shift(2, "p2", "2"),
      Shift(3, "p2", "3"), Shift(DaysInMonth, LOCKED, "2") }

InitChoice ==
    /\ people \in ChoiceRosters
    /\ shifts \in SeqsUpTo(ChoiceInputShifts, MaxShifts + 1)
    /\ firstCallCount \in MinFirstCallCount..InitialFirstCallCount
    /\ manualHighlights \in SUBSET HighlightDates
    /\ lastOp = [op |-> "init", alert |-> NoAlert]
    /\ isExcelUnlocked = TRUE
    /\ uploadPhase = "idle"
    /\ versions = << >>
    /\ editedInFlight = FALSE
    /\ db = EmptyDb
    /\ httpStatus = 0

NextChoice == \E confirmed \in BOOLEAN : GenerateSchedule(confirmed)

SpecChoice == InitChoice /\ [][NextChoice]_vars

(* C21: for every slot auto-fill fills, no member of the slot's candidate    *)
(* set comes before the selected person under the key (a) need descending,   *)
(* with need = target - total or, without a total target, -total, for every  *)
(* pair compared; (b) tally of the day's type ascending; (c) total ascending.*)
C21_SelectedFirstByKey ==
    [][isFillStep =>
        \A i \in (Len(shifts) + 1)..Len(shifts') :
            LET k == orderOf(shifts'[i].date, shifts'[i].level, firstCallCount)
                cur == reachedAt(shifts, shifts', firstCallCount, k)
                counts == initialCounts(people, cur, manualHighlights)
                pool == poolAtOrder(people, shifts, shifts', firstCallCount, manualHighlights, k)
                selected == findPerson(people, shifts'[i].personId)
            IN \A c \in Idx(pool) :
                  ~keyBefore(pool[c], selected, counts,
                             isHolidayType(shifts'[i].date, manualHighlights))
      ]_vars

\* the person holds an assignment exactly two days before or after the day
twoDaysAway(cur, id, day) ==
    \E j \in Idx(cur) : cur[j].personId = id /\ diffDays(cur[j].date, day) = 2

(* C22: the 2-day buffer is a preference: when a slot is filled and at least *)
(* one eligible candidate holds nothing on day - 2 and day + 2, the selected *)
(* person holds nothing there either; when every eligible candidate holds    *)
(* something there, the slot is filled all the same, with one of them.       *)
C22_SoftTwoDayBuffer ==
    [][isFillStep =>
        /\ \A i \in (Len(shifts) + 1)..Len(shifts') :
              LET day == shifts'[i].date
                  k == orderOf(day, shifts'[i].level, firstCallCount)
                  cur == reachedAt(shifts, shifts', firstCallCount, k)
                  eligible == eligibleAtOrder(people, shifts, shifts', firstCallCount,
                                              manualHighlights, k)
              IN /\ shifts'[i].personId \in rosterIds(eligible)
                 /\ (\E e \in Idx(eligible) : ~twoDaysAway(cur, eligible[e].id, day))
                    => ~twoDaysAway(cur, shifts'[i].personId, day)
        /\ \A k \in 1..(DaysInMonth * Len(Slots(firstCallCount))) :
              LET day == dayAt(k, firstCallCount)
                  cur == reachedAt(shifts, shifts', firstCallCount, k)
                  eligible == eligibleAtOrder(people, shifts, shifts', firstCallCount,
                                              manualHighlights, k)
              IN ( /\ ~slotTaken(cur, day, slotAt(k, firstCallCount).level)
                   /\ eligible # << >>
                   /\ \A e \in Idx(eligible) : twoDaysAway(cur, eligible[e].id, day) )
                 => \E i \in (Len(shifts) + 1)..Len(shifts') :
                       orderOf(shifts'[i].date, shifts'[i].level, firstCallCount) = k
      ]_vars

\* a pass has given a slot to a person who held an assignment two days away
\* (nobody else was left), and another slot to a person who held none
C22_Witness ==
    /\ afterFill
    /\ \E i \in Idx(shifts) :
          /\ i > MaxShifts
          /\ twoDaysAway(SubSeq(shifts, 1, i - 1), shifts[i].personId, shifts[i].date)
    /\ \E i \in Idx(shifts) :
          /\ i > MaxShifts
          /\ shifts[i].date > 2
          /\ ~twoDaysAway(SubSeq(shifts, 1, i - 1), shifts[i].personId, shifts[i].date)

RECURSIVE passStateAt(_, _, _, _, _, _)
\* currentMonthShifts and counts when the pass reaches its k-th (day, slot)
\* pair, st being what it holds when it reaches the j-th
passStateAt(ps, st, j, k, fcc, highlights) ==
    LET next == fillSlot(ps, st, dayAt(j, fcc), slotAt(j, fcc), highlights)
    IN IF j >= k THEN st
       ELSE IF Len(next.shifts) >= Len(st.shifts)
            THEN passStateAt(ps, next, j + 1, k, fcc, highlights)
            ELSE st

(* C23: the running tallies are exact throughout a pass: before each slot    *)
(* decision, and at the end, each person's running total is the number of    *)
(* that person's assignments of the month in the list in progress, the       *)
(* holiday and weekday tallies are the numbers of those on holiday-type and  *)
(* weekday dates, and total = holiday + weekday.                             *)
C23_TalliesExact ==
    [][isFillStep =>
        \A k \in 1..(DaysInMonth * Len(Slots(firstCallCount)) + 1) :
            LET st == passStateAt(people,
                                  [shifts |-> shifts,
                                   counts |-> initialCounts(people, shifts, manualHighlights)],
                                  1, k, firstCallCount, manualHighlights)
            IN /\ st.shifts = reachedAt(shifts, shifts', firstCallCount, k)
               /\ \A id \in rosterIds(people) :
                     /\ st.counts[id].total = monthTotal(st.shifts, id)
                     /\ st.counts[id].hol = monthHoliday(st.shifts, id, manualHighlights)
                     /\ st.counts[id].wk = monthWeekday(st.shifts, id, manualHighlights)
                     /\ st.counts[id].total = st.counts[id].hol + st.counts[id].wk
      ]_vars

\* a pass has added a holiday-type and a weekday assignment for a person who
\* held an assignment of the month before it
C23_Witness ==
    /\ afterFill
    /\ \E id \in rosterIds(people) :
          /\ \E i \in Idx(shifts) :
                i <= MaxShifts /\ shifts[i].personId = id /\ InCurrentMonth(shifts[i].date)
          /\ \E i \in Idx(shifts) :
                /\ i > MaxShifts /\ shifts[i].personId = id
                /\ isHolidayType(shifts[i].date, manualHighlights)
          /\ \E i \in Idx(shifts) :
                /\ i > MaxShifts /\ shifts[i].personId = id
                /\ ~isHolidayType(shifts[i].date, manualHighlights)

\* the report lists no restriction violation and no consecutive pair for anybody
noHardConflict(ps, ss) ==
    \A k \in Idx(ps) :
        /\ findingsOf(ss, ps[k]).violations = << >>
        /\ findingsOf(ss, ps[k]).consecutive = << >>

(* C24: auto-fill creates no hard conflict: no assignment it adds falls on a *)
(* date of the person's unavailable list, and when the Conflicts & Warnings  *)
(* report lists no restriction violation and no consecutive pair for any     *)
(* person before the pass, it lists none after it.                           *)
C24_FillNoHardConflict ==
    [][isFillStep =>
        /\ \A i \in (Len(shifts) + 1)..Len(shifts') :
              shifts'[i].date \notin findPerson(people, shifts'[i].personId).unavailableDates
        /\ noHardConflict(people, shifts) => noHardConflict(people, shifts')
      ]_vars

\* a pass over a month that held assignments has given days to a person with
\* unavailable dates, and the report lists a one-day gap and no hard conflict
C24_Witness ==
    /\ afterFill
    /\ noHardConflict(people, shifts)
    /\ \E i \in Idx(shifts) :
          i <= MaxShifts /\ InCurrentMonth(shifts[i].date) /\ shifts[i].personId \in rosterIds(people)
    /\ \E i \in Idx(shifts) :
          i > MaxShifts /\ findPerson(people, shifts[i].personId).unavailableDates # {}
    /\ \E k \in Idx(people) : findingsOf(shifts, people[k]).oneDayGap # << >>

----------------------------------------------------------------------------
(* Roster additions and the version history *)

\* the id Math.random() gives the new person, and the roles tried for them
NewPersonIds == {"p4"}

NewPersonRoles == {"both"}

\* addPerson: a new id, the chosen role, no subset, no restriction, no target
AddPerson(id, role) ==
    /\ Len(people) < MaxPeople
    /\ id \notin rosterIds(people)
    /\ people' = Append(people, Person(id, role, "", {}, 0, 0, 0))
    /\ lastOp' = [op |-> "addPerson", alert |-> NoAlert]
    /\ UNCHANGED <<versions, editedInFlight, serverVars,
                   shifts, firstCallCount, manualHighlights, isExcelUnlocked, uploadPhase>>

\* format(currentDate, 'yyyy-MM') of the displayed month
monthStr == "M"

\* shifts.filter(s => s.date.startsWith(monthStr))
monthShiftsOf(ss) == SelectSeq(ss, LAMBDA s : InCurrentMonth(s.date))

\* the Save button, disabled while locked
SaveVersion ==
    /\ isExcelUnlocked
    /\ Len(versions) < MaxVersions
    /\ versions' = Append(versions, [month |-> monthStr, shifts |-> monthShiftsOf(shifts)])
    /\ lastOp' = [op |-> "saveVersion", alert |-> "Schedule saved successfully!"]
    /\ UNCHANGED <<editedInFlight, serverVars, people, shifts, firstCallCount,
                   manualHighlights, isExcelUnlocked, uploadPhase>>

\* variant: the saved assignments are put behind the whole current list
restoreResultKeepingMonth(ss, version) == ss \o version.shifts

\* [...otherMonthsShifts, ...version.shifts]
restoreResult(ss, version) ==
    SelectSeq(ss, LAMBDA s : ~(version.month = monthStr /\ InCurrentMonth(s.date)))
        \o version.shifts

\* the Restore button of a version of the displayed month, disabled while
\* locked, with its confirm()
RestoreVersion(i, confirmed) ==
    /\ isExcelUnlocked
    /\ i \in Idx(versions)
    /\ versions[i].month = monthStr
    /\ shifts' = IF confirmed THEN restoreResult(shifts, versions[i]) ELSE shifts
    /\ lastOp' = [op |-> IF confirmed THEN "restoreVersion" ELSE "restoreVersionCancelled",
                  alert |-> NoAlert]
    /\ UNCHANGED <<versions, editedInFlight, serverVars, people, firstCallCount,
                   manualHighlights, isExcelUnlocked, uploadPhase>>

\* every assignment that is not a lock refers to a person of the roster
refersToRoster(ps, ss) ==
    \A i \in Idx(ss) : ss[i].personId = LOCKED \/ ss[i].personId \in rosterIds(ps)

\* assignments the stored list may hold when the page is opened
HistoryShifts == { Shift(0, "p1", "3"), Shift(0, LOCKED, "2"), Shift(DaysInMonth + 1, "p2", "1A") }

InitHistory ==
    /\ people \in {RosterGroups, RosterEmpty}
    /\ shifts \in {ss \in SeqsUpTo(HistoryShifts, 1) : refersToRoster(people, ss)}
    /\ firstCallCount = InitialFirstCallCount
    /\ manualHighlights = {}
    /\ lastOp = [op |-> "init", alert |-> NoAlert]
    /\ isExcelUnlocked = FALSE
    /\ uploadPhase = "idle"
    /\ versions = << >>
    /\ editedInFlight = FALSE
    /\ db = EmptyDb
    /\ httpStatus = 0

NextHistory ==
    \/ Unlock
    \/ \E id \in NewPersonIds, role \in NewPersonRoles : AddPerson(id, role)
    \/ \E id \in rosterIds(people) : RemovePerson(id)
    \/ \E date \in EditDates, level \in {"2"},
          oldPersonId \in (rosterIds(people) \cap {"p1"}) \cup {NoPerson},
          newPersonId \in (rosterIds(people) \cap {"p1", "p2"}) \cup {NoPerson} :
            UpdateShift(date, level, oldPersonId, newPersonId)
    \/ \E confirmed \in BOOLEAN : GenerateSchedule(confirmed)
    \/ \E confirmed \in BOOLEAN : ClearMonth(confirmed)
    \/ SaveVersion
    \/ \E i \in 1..MaxVersions, confirmed \in BOOLEAN : RestoreVersion(i, confirmed)

SpecHistory == InitHistory /\ [][NextHistory]_vars

(* C25: in every state reachable by adding a person, removing a person, a    *)
(* manual placement, auto-fill, clearing the month, saving a version and     *)
(* restoring a version, every assignment that is not LOCKED refers to a      *)
(* person of the roster.                                                     *)
C25_ReferentialIntegrity == refersToRoster(people, shifts)

----------------------------------------------------------------------------
(* Locks on the first-call letters *)

\* currentShift?.personId of a cell: the person of the first assignment of the slot
currentPersonId(ss, date, level) ==
    LET k == FirstIndex({ix \in Idx(ss) : ss[ix].date = date /\ ss[ix].level = level})
    IN IF k = 0 THEN NoPerson ELSE ss[k].personId

(* C26: the first-call exclusivity check does not treat LOCKED as a person:  *)
(* choosing LOCKED in the cell of a first-call letter is accepted (no alert, *)
(* the slot is locked afterwards) even when another first-call letter of the *)
(* same date is already LOCKED.                                              *)
C26_LockedPlacementAccepted ==
    \A date \in EditDates, level \in ConfiguredLevels(firstCallCount) :
        ( /\ isExcelUnlocked
          /\ StartsWith1(level)
          /\ currentPersonId(shifts, date, level) # LOCKED
          /\ \E i \in Idx(shifts) :
                /\ shifts[i].date = date /\ shifts[i].level # level
                /\ StartsWith1(shifts[i].level) /\ shifts[i].personId = LOCKED )
        => LET r == updateShiftResult(shifts, date, level,
                                      currentPersonId(shifts, date, level), LOCKED)
           IN /\ r.alert = NoAlert
              /\ \E i \in Idx(r.shifts) :
                    /\ r.shifts[i].date = date /\ r.shifts[i].level = level
                    /\ r.shifts[i].personId = LOCKED

----------------------------------------------------------------------------
(* Edits made while an image import is in flight *)

\* the assignments of a list at one slot, in list order
atSlot(ss, date, level) == SelectSeq(ss, LAMBDA s : s.date = date /\ s.level = level)

\* the import returns an assignment for the slot
returnedFor(extractedShifts, date, level) ==
    \E i \in Idx(extractedShifts) :
        /\ isValidImport(extractedShifts[i])
        /\ extractedShifts[i].date = date /\ extractedShifts[i].level = level

AllLevels == ConfiguredLevels(MaxFirstCallCount) \cup {UnknownLevel}

(* C27: edits interleaved with an image import in flight are not lost: when  *)
(* the answer is merged, the list as the edits made since the start of the   *)
(* import have left it is kept at every slot for which the import returns no *)
(* assignment, and the end of the import changes nothing more.               *)
C27_EditsSurviveImport ==
    [][ /\ (uploadPhase = "inFlight" /\ uploadPhase' = "imported")
           => \E extractedShifts \in ImportResponses :
                 /\ shifts' = importResult(shifts, extractedShifts)
                 /\ \A date \in Dates, level \in AllLevels :
                       ~returnedFor(extractedShifts, date, level)
                       => atSlot(shifts', date, level) = atSlot(shifts, date, level)
        /\ (uploadPhase = "imported" /\ uploadPhase' = "idle") => shifts' = shifts
      ]_vars

\* an import has been merged after an edit made while it was in flight, and
\* the list holds both a lock placed by hand and an imported assignment
C27_Witness ==
    /\ uploadPhase = "imported"
    /\ editedInFlight
    /\ lastOp.op = "import"
    /\ \E i \in Idx(shifts) : shifts[i].personId = LOCKED
    /\ \E i \in Idx(shifts) : shifts[i].personId \in {"p2", "p3"}

----------------------------------------------------------------------------
(* The ways an image import can go *)

AlertImportFailed == "Failed to read schedule from image."

\* what makes the fetch part throw: !response.ok, a rejected fetch, a body
\* that is not JSON
ImportFailures == {"httpError", "networkFailure", "invalidJson"}

\* the catch around the fetch: the interval is cleared and the flag reset
ImportFailed(failure) ==
    /\ uploadPhase = "inFlight"
    /\ uploadPhase' = "idle"
    /\ lastOp' = [op |-> failure, alert |-> AlertImportFailed]
    /\ UNCHANGED <<versions, editedInFlight, serverVars, people, shifts, firstCallCount,
                   manualHighlights, isExcelUnlocked>>

\* data.shifts is truthy and not an array (an object, a number, a string):
\* the if has no else, nothing is thrown, nothing is scheduled
ImportAnsweredNoArray ==
    /\ uploadPhase = "inFlight"
    /\ uploadPhase' = "stuck"
    /\ lastOp' = [op |-> "importNoArray", alert |-> NoAlert]
    /\ UNCHANGED <<versions, editedInFlight, serverVars, people, shifts, firstCallCount,
                   manualHighlights, isExcelUnlocked>>

\* the reader ends without a result: reader.result.split throws in onloadend,
\* outside the try around the fetch
ReaderFailed ==
    /\ uploadPhase = "inFlight"
    /\ uploadPhase' = "stuck"
    /\ lastOp' = [op |-> "readerFailed", alert |-> NoAlert]
    /\ UNCHANGED <<versions, editedInFlight, serverVars, people, shifts, firstCallCount,
                   manualHighlights, isExcelUnlocked>>

\* isUploadingImage
isUploadingImage == uploadPhase # "idle"

\* the interval that advances importProgress has not been cleared
progressIntervalRuns == uploadPhase \in {"inFlight", "stuck"}

\* the reader and the fetch end one way or another
ImportSettles ==
    \/ ReaderFailed
    \/ \E failure \in ImportFailures : ImportFailed(failure)
    \/ ImportAnsweredNoArray
    \/ \E extractedShifts \in ImportResponses : ImportAnswered(extractedShifts)

NextUpload ==
    \/ Unlock
    \/ Lock
    \/ StartImport
    \/ ImportSettles
    \/ ImportDone

\* onloadend and the fetch are delivered, and the 300 ms timeout fires
SpecUpload == Init /\ [][NextUpload]_vars /\ WF_vars(ImportSettles) /\ WF_vars(ImportDone)

(* C28: every started import eventually finishes, whatever the reader and    *)
(* the server return: the uploading flag is false again and the progress     *)
(* timer is stopped, so that a new import can be started.                    *)
C28_ImportEventuallyFinishes ==
    isUploadingImage ~> (~isUploadingImage /\ ~progressIntervalRuns)

----------------------------------------------------------------------------
(* Saving and restoring a version *)

\* the assignments of the other months, in list order
otherMonthsShiftsOf(ss) == SelectSeq(ss, LAMBDA s : ~InCurrentMonth(s.date))

(* C29: version round trip: Save records the assignments of the displayed    *)
(* month; no edit made afterwards changes a saved version; Restore leaves    *)
(* the assignments dated in the month exactly as the snapshot holds them and *)
(* those of the other months exactly as they were just before the restore.   *)
C29_VersionRoundTrip ==
    [][ /\ lastOp'.op = "saveVersion"
           => /\ Len(versions') = Len(versions) + 1
              /\ versions'[Len(versions')].shifts = monthShiftsOf(shifts)
              /\ SubSeq(versions', 1, Len(versions)) = versions
        /\ lastOp'.op # "saveVersion" => versions' = versions
        /\ lastOp'.op = "restoreVersion"
           => /\ \E i \in Idx(versions) : monthShiftsOf(shifts') = versions[i].shifts
              /\ otherMonthsShiftsOf(shifts') = otherMonthsShiftsOf(shifts)
      ]_vars

\* a version has been restored after the removal of a person it names, into a
\* list that holds assignments of another month
C29_Witness ==
    /\ lastOp.op = "restoreVersion"
    /\ versions # << >>
    /\ monthShiftsOf(shifts) = versions[1].shifts
    /\ \E i \in Idx(versions[1].shifts) :
          versions[1].shifts[i].personId \in PersonIds \ rosterIds(people)
    /\ otherMonthsShiftsOf(shifts) # << >>

----------------------------------------------------------------------------
(* The save routes of the server (src/unnamed/part_004) *)

\* an INSERT of the run hits the primary key of a row the same run has
\* inserted; keys are the key values of the items, in insertion order
insertFails(keys) == \E i, j \in Idx(keys) : i < j /\ keys[i] = keys[j]

idsOf(items) == [i \in Idx(items) |-> items[i].id]

\* request bodies: lists with and without a repeated key
ShiftBodies == SeqsUpTo({Shift(1, "p1", "2"), Shift(2, "p2", "3")}, 2)

PeopleBodies ==
    SeqsUpTo({[id |-> "p1", name |-> "A"], [id |-> "p1", name |-> "B"],
              [id |-> "p2", name |-> "C"]}, 2)

VersionBodies ==
    SeqsUpTo({[id |-> "v1", month |-> monthStr, shifts |-> << >>],
              [id |-> "v2", month |-> monthStr, shifts |-> <<Shift(1, "p1", "2")>>]}, 2)

HighlightBodies ==
    {[manualHighlights |-> h, noonDays |-> n] :
        h \in SeqsUpTo(HighlightDates \cup EditDates, 2), n \in SeqsUpTo(HighlightDates, 2)}

\* POST /api/shifts: DELETE runs on its own, the inserts in a transaction
PostShifts(items) ==
    /\ db' = [db EXCEPT !.shifts = IF insertFails(items) THEN {} ELSE Range(items)]
    /\ httpStatus' = IF insertFails(items) THEN 500 ELSE 200
    /\ lastOp' = [op |-> "POST /api/shifts", alert |-> NoAlert]
    /\ UNCHANGED <<people, shifts, firstCallCount, manualHighlights, isExcelUnlocked,
                   uploadPhase, versions, editedInFlight>>

\* POST /api/people
PostPeople(items) ==
    /\ db' = [db EXCEPT !.people = IF insertFails(idsOf(items)) THEN {} ELSE Range(items)]
    /\ httpStatus' = IF insertFails(idsOf(items)) THEN 500 ELSE 200
    /\ lastOp' = [op |-> "POST /api/people", alert |-> NoAlert]
    /\ UNCHANGED <<people, shifts, firstCallCount, manualHighlights, isExcelUnlocked,
                   uploadPhase, versions, editedInFlight>>

\* POST /api/versions
PostVersions(items) ==
    /\ db' = [db EXCEPT !.versions = IF insertFails(idsOf(items)) THEN {} ELSE Range(items)]
    /\ httpStatus' = IF insertFails(idsOf(items)) THEN 500 ELSE 200
    /\ lastOp' = [op |-> "POST /api/versions", alert |-> NoAlert]
    /\ UNCHANGED <<people, shifts, firstCallCount, manualHighlights, isExcelUnlocked,
                   uploadPhase, versions, editedInFlight>>

\* POST /api/highlights: both DELETEs and all inserts in one transaction
PostHighlights(body) ==
    LET fails == insertFails(body.manualHighlights) \/ insertFails(body.noonDays)
    IN /\ db' = IF fails THEN db
                ELSE [db EXCEPT !.manual_highlights = Range(body.manualHighlights),
                                !.noon_days = Range(body.noonDays)]
       /\ httpStatus' = IF fails THEN 500 ELSE 200
       /\ lastOp' = [op |-> "POST /api/highlights", alert |-> NoAlert]
       /\ UNCHANGED <<people, shifts, firstCallCount, manualHighlights, isExcelUnlocked,
                      uploadPhase, versions, editedInFlight>>

\* the server started on a new database; the page is not part of it
InitServer ==
    /\ people = RosterEmpty
    /\ shifts = << >>
    /\ firstCallCount = InitialFirstCallCount
    /\ manualHighlights = {}
    /\ lastOp = [op |-> "init", alert |-> NoAlert]
    /\ isExcelUnlocked = FALSE
    /\ uploadPhase = "idle"
    /\ versions = << >>
    /\ editedInFlight = FALSE
    /\ db = EmptyDb
    /\ httpStatus = 0

NextServer ==
    \/ \E items \in ShiftBodies : PostShifts(items)
    \/ \E items \in PeopleBodies : PostPeople(items)
    \/ \E items \in VersionBodies : PostVersions(items)
    \/ \E body \in HighlightBodies : PostHighlights(body)

SpecServer == InitServer /\ [][NextServer]_vars

(* C30: the saves of the server are all-or-nothing: when POST /api/shifts,   *)
(* /api/people or /api/versions fails while inserting (a primary-key         *)
(* violation), the rows stored before the request are still stored, as for   *)
(* POST /api/highlights.                                                     *)
C30_SavesAllOrNothing ==
    [][(lastOp'.op # "init" /\ httpStatus' = 500) => db' = db]_vars

====
